---- MODULE Spec2Model ----
(***************************************************************************)
(* Model of the Zealy NFT dropper (src/main.py, src/tools.py).             *)
(*                                                                         *)
(* Three specifications share this module:                                 *)
(*   Spec       the distribution process, run_nft_dropper                  *)
(*   VerifySpec the verification process,                                  *)
(*              get_smr_address_from_quest_and_verify                      *)
(*   FnSpec     the pure list functions (unique_addresses, check_if_sent,  *)
(*              the reconcile loop) applied to every bounded input         *)
(* The two processes are started as separate operating-system processes    *)
(* (main.py 352-357) and share no memory, so each is explored on its own.  *)
(*                                                                         *)
(* Addresses, user ids, claim ids and token ids are small naturals.  The   *)
(* send-history file is the sequence of its rows; a row keeps the address  *)
(* (column 0, the only column ever read back) and the token id.            *)
(***************************************************************************)
EXTENDS Integers, Sequences, FiniteSets, TLC

\* ---------------------------------------------------------------- bounds
MaxUsers == 12      \* user ids 1..MaxUsers appear in quest responses
MaxCycles == 2      \* distribution cycles explored
MaxWriteFail == 1   \* highest row index whose append may fail on its own
MaxLen == 3         \* FnSpec: longest input list
MaxVal == 3         \* FnSpec: addresses 1..MaxVal
FnUsers == 2        \* FnSpec: user ids 1..FnUsers
MaxPending == 2     \* VerifySpec: pending submissions per fetch
MaxVCycles == 2     \* VerifySpec: verification cycles explored
MaxMint == 101      \* MintSpec: largest amount asked of mint_nfts
MaxAssign == 11     \* AssignSpec: most addresses and most tokens of a supply

\* ------------------------------------------------------ program constants
ChunkSize == 10                          \* main.py 195
MintBatchSize == 50                      \* tools.py 330
MinBalance == 10000000                   \* tools.py 286
RecordedNetworkId == "1856588631910923207"   \* tools.py 151
MainnetNetworkId == "14364762045254553490"   \* tools.py 149
TestnetNetworkId == "1856588631910923207"    \* tools.py 150
collection_nft_id == 0                   \* tools.py 39 (COLLECTION_NFT_ID)

\* ---------------------------------------------------------------- helpers
Range(s) == {s[i] : i \in DOMAIN s}
InList(x, s) == \E i \in DOMAIN s : s[i] = x
Min(a, b) == IF a < b THEN a ELSE b
SeqsUpTo(S, n) == UNION {[1..k -> S] : k \in 0..n}
NoMatch == 0        \* a submission text in which re.search finds nothing

\* ------------------------------------------------------------ tools.py
\* unique_addresses (tools.py 240-251): keep the first occurrence of each value.
RECURSIVE unique_loop(_, _)
unique_loop(addresses, acc) ==
  IF addresses = <<>> THEN acc
  ELSE unique_loop(Tail(addresses),
                   IF InList(Head(addresses), acc) THEN acc
                   ELSE Append(acc, Head(addresses)))

unique_keep_all(addresses) == addresses

RECURSIVE unique_last_loop(_, _)
unique_last_loop(addresses, acc) ==
  IF addresses = <<>> THEN acc
  ELSE unique_last_loop(Tail(addresses),
                        IF InList(Head(addresses), Tail(addresses)) THEN acc
                        ELSE Append(acc, Head(addresses)))

unique_keep_last(addresses) == unique_last_loop(addresses, <<>>)

unique_addresses(addresses) == unique_loop(addresses, <<>>)

\* check_if_sent (tools.py 93-105): rows is the content of the send-history
\* file; sent_addresses is keyed by column 0 of every row.
RECURSIVE filter_loop(_, _, _)
filter_loop(addresses, sent_addresses, new_addresses) ==
  IF addresses = <<>> THEN new_addresses
  ELSE filter_loop(Tail(addresses), sent_addresses,
                   IF Head(addresses) \in sent_addresses THEN new_addresses
                   ELSE Append(new_addresses, Head(addresses)))

sent_keys(rows) == {rows[i].address : i \in DOMAIN rows}

check_if_sent_keep_all(addresses, rows) == addresses

check_if_sent_skip_last_row(addresses, rows) ==
  filter_loop(addresses, {rows[i].address : i \in 1..(Len(rows) - 1)}, <<>>)

RECURSIVE filter_break_loop(_, _, _)
filter_break_loop(addresses, sent_addresses, new_addresses) ==
  IF addresses = <<>> \/ Head(addresses) \in sent_addresses THEN new_addresses
  ELSE filter_break_loop(Tail(addresses), sent_addresses,
                         Append(new_addresses, Head(addresses)))

check_if_sent_break_at_hit(addresses, rows) ==
  filter_break_loop(addresses, sent_keys(rows), <<>>)

check_if_sent(addresses, rows) == filter_loop(addresses, sent_keys(rows), <<>>)

\* A word of a submission text is an integer: 0 is a word that is no address,
\* a > 0 is the word smr1... naming address a, a < 0 is a bech32 address of
\* another network (it does not start with the configured prefix).
\* The address-validity oracle, IotaClient.is_address_valid (tools.py 258, 271),
\* is a fixed function of the string; smr1-word MaxUsers is the malformed one.
is_address_valid(a) == a # 0 /\ a # MaxUsers

\* smr_address.startswith(shimmer_address_hrp), tools.py 270.
starts_with_hrp(a) == a > 0

validate_prefix_only(smr_address) == starts_with_hrp(smr_address)

validate_oracle_only(smr_address) == is_address_valid(smr_address)

\* validate_shimmer_address, tools.py 268-274.
validate_shimmer_address(smr_address) ==
  IF starts_with_hrp(smr_address)
  THEN (IF is_address_valid(smr_address) THEN TRUE ELSE FALSE)
  ELSE FALSE

\* return_valid_shimmer_addresses (tools.py 253-266), the normal path.
RECURSIVE valid_loop(_, _)
valid_loop(smr_addresses, valid_addresses) ==
  IF smr_addresses = <<>> THEN valid_addresses
  ELSE valid_loop(Tail(smr_addresses),
                  IF ~is_address_valid(Head(smr_addresses)) THEN valid_addresses
                  ELSE Append(valid_addresses, Head(smr_addresses)))

return_valid_shimmer_addresses(smr_addresses) == valid_loop(smr_addresses, <<>>)

\* write_to_csv (tools.py 170-198) for the outputs of one batch, in order
\* (tools.py 154-157).  failed holds the indices whose append raised; the
\* exception is swallowed (tools.py 197-198) and the row is missing.
RECURSIVE write_rows(_, _, _, _)
write_rows(rows, outs, i, failed) ==
  IF i > Len(outs) THEN rows
  ELSE write_rows(IF i \in failed THEN rows
                  ELSE Append(rows, [address |-> outs[i].recipientAddress,
                                     nftId |-> outs[i].nftId]),
                  outs, i + 1, failed)

\* The append failures explored for a batch of n rows: none, every row, or one
\* single row of index at most MaxWriteFail.
WriteFailSets(n) == {{}, 1..n} \cup {{i} : i \in 1..Min(n, MaxWriteFail)}

\* tools.py 151: the rows are written only when the network id equals this one.
records_network(id) == id = RecordedNetworkId

\* ------------------------------------------------------------- main.py
\* A submission text is the sequence of its whitespace-separated words.
\* re.search(r"smr1\w+", text) (main.py 96-100) yields the first smr1 word.
RECURSIVE re_search(_)
re_search(text) ==
  IF text = <<>> THEN NoMatch
  ELSE IF Head(text) > 0 THEN Head(text) ELSE re_search(Tail(text))

\* get_nft_winners (main.py 64-69): the user ids of the response, in order.
nft_winner_ids(data) == [i \in DOMAIN data |-> data[i].user]

\* get_smr_address_submitters (main.py 91-105): (user id, address) of every
\* item whose text holds an address; the others are dropped.
RECURSIVE submitters_loop(_, _)
submitters_loop(data, smr_address_submitters) ==
  IF data = <<>> THEN smr_address_submitters
  ELSE submitters_loop(Tail(data),
         IF re_search(Head(data).value) = NoMatch THEN smr_address_submitters
         ELSE Append(smr_address_submitters,
                     <<Head(data).user, re_search(Head(data).value)>>))

get_smr_address_submitters(data) == submitters_loop(data, <<>>)

\* main.py 128-134: the addresses of the submitters whose user id is a winner.
RECURSIVE reconcile_loop(_, _, _)
reconcile_loop(submitters, winner_ids, smr_addresses) ==
  IF submitters = <<>> THEN smr_addresses
  ELSE reconcile_loop(Tail(submitters), winner_ids,
         IF InList(Head(submitters)[1], winner_ids)
         THEN Append(smr_addresses, Head(submitters)[2])
         ELSE smr_addresses)

reconcile_all_submitters(winner_ids, submitters) ==
  unique_addresses([i \in DOMAIN submitters |-> submitters[i][2]])

reconcile_no_dedup(winner_ids, submitters) ==
  reconcile_loop(submitters, winner_ids, <<>>)

RECURSIVE reconcile_rev_loop(_, _, _)
reconcile_rev_loop(submitters, winner_ids, smr_addresses) ==
  IF submitters = <<>> THEN smr_addresses
  ELSE reconcile_rev_loop(Tail(submitters), winner_ids,
         IF InList(Head(submitters)[1], winner_ids)
         THEN <<Head(submitters)[2]>> \o smr_addresses
         ELSE smr_addresses)

reconcile_reversed(winner_ids, submitters) ==
  unique_addresses(reconcile_rev_loop(submitters, winner_ids, <<>>))

\* get_smr_address_from_quest_completers (main.py 127-138).
reconcile(winner_ids, submitters) ==
  unique_addresses(reconcile_loop(submitters, winner_ids, <<>>))

\* main.py 183: the provisioning loop's test.
provision_short_no_reserve(addresses, ids) == Len(addresses) > Len(ids)

provision_never_short(addresses, ids) == FALSE

provision_short(addresses, ids) == Len(addresses) > (Len(ids) - 1)

\* main.py 195: chunk k of the address list.
chunk(addresses, k) ==
  SubSeq(addresses, (k - 1) * ChunkSize + 1, Min(k * ChunkSize, Len(addresses)))

num_chunks(addresses) == (Len(addresses) + ChunkSize - 1) \div ChunkSize

\* main.py 200-207: pop from the front until a token other than the collection
\* token is found; <<>> when the list runs out (IndexError).
RECURSIVE drop_collection(_)
drop_collection(ids) ==
  IF ids = <<>> THEN <<>>
  ELSE IF Head(ids) = collection_nft_id THEN drop_collection(Tail(ids)) ELSE ids

take_first(ids) == ids

next_token(ids) == drop_collection(ids)

\* main.py 198-234 for one chunk: one output per address, or the address in
\* invalid_rows when the supply ran out.
\* main.py 200: pop(0) removes the token it returns.
peek_rest(rest) == rest

pop_rest(rest) == Tail(rest)

\* main.py 232-234: the except clause of the assignment.
ignore_index_error(invalid, address) == invalid

on_index_error(invalid, address) == Append(invalid, address)

RECURSIVE assign_loop(_, _, _, _)
assign_loop(addrs, ids, outs, invalid) ==
  IF addrs = <<>> THEN [nft_ids |-> ids, outputs |-> outs, invalid_rows |-> invalid]
  ELSE LET rest == next_token(ids) IN
       IF rest = <<>>
       THEN assign_loop(Tail(addrs), <<>>, outs,
                        on_index_error(invalid, Head(addrs)))
       ELSE assign_loop(Tail(addrs), pop_rest(rest),
                        Append(outs, [recipientAddress |-> Head(addrs),
                                      nftId |-> Head(rest)]),
                        invalid)

\* mint_nfts (tools.py 276-344): the number of tokens a call adds.  Below the
\* minimum balance nothing is minted (286-289); otherwise the requests go out
\* in batches of MintBatchSize (330-336) and confirmed of them are included
\* before an exception, if any, ends the call (343-344).
mint_batches(amount) == (amount + MintBatchSize - 1) \div MintBatchSize

\* tools.py 286: the balance test of mint_nfts.
balance_never_too_low(available_balance) == FALSE

balance_too_low(available_balance) == available_balance < MinBalance

minted_count(amount, available_balance, confirmed) ==
  IF balance_too_low(available_balance) THEN 0
  ELSE Min(confirmed * MintBatchSize, amount)

fresh_tokens(first, n) == [i \in 1..n |-> first + i - 1]

\* The wallet after a transaction moved the tokens of outs away.
RECURSIVE remove_tokens(_, _)
remove_tokens(held, gone) ==
  IF held = <<>> THEN <<>>
  ELSE IF Head(held) \in gone THEN remove_tokens(Tail(held), gone)
       ELSE <<Head(held)>> \o remove_tokens(Tail(held), gone)

output_recipients(outs) == {outs[i].recipientAddress : i \in DOMAIN outs}

output_tokens(outs) == {outs[i].nftId : i \in DOMAIN outs}

\* ------------------------------------------------- the quest platform
\* What get_zealy_api_data returns (tools.py 200-214):
\*   "none"    None, after a transport or parse error (213-214)
\*   "no_data" a non-empty JSON object without the key 'data' (an error body)
\*   "data"    a JSON object with the claimed quests under 'data'
WinnerData == {[i \in 1..n |-> [user |-> i]] : n \in {0, 3, MaxUsers}}

\* Every user submits an address of their own; user 2 then submits the address
\* of user 1 again, inside a sentence.
FullAddressData ==
  [i \in 1..MaxUsers |-> [user |-> i, value |-> <<i>>]]
    \o << [user |-> 2, value |-> <<0, 1>>] >>

SmallAddressData ==
  << [user |-> 1, value |-> <<1>>],
     [user |-> 2, value |-> <<0, 1, 0>>],
     [user |-> 3, value |-> <<0>>],
     [user |-> 4, value |-> <<2>>],
     [user |-> 2, value |-> <<MaxUsers>>] >>

AddressData == {<<>>, SmallAddressData, FullAddressData}

Responses(D) ==
  {[kind |-> "data", data |-> d] : d \in D}
    \cup {[kind |-> k, data |-> <<>>] : k \in {"none", "no_data"}}

NetworkIds == {MainnetNetworkId, TestnetNetworkId}

\* The history file left by an earlier run: one row, for address 1 and a
\* token that left the wallet then.
PriorRows == <<[address |-> 1, nftId |-> -1]>>

InitialSupplies ==
  {<<>>, <<collection_nft_id, 1, 2>>, <<1, collection_nft_id, 2>>,
   <<1, 2, collection_nft_id>>}

Balances == {MinBalance - 1, MinBalance, MinBalance + 1}

\* ------------------------------------------------------------- state
VARIABLES
  dpc,             \* position of the distribution process
  exc,             \* the exception that ended it, "none" while it runs
  cfg_filename,    \* SHIMMER_ADDRESS_SENT_TO_FILENAME: "set", "empty", "unset"
  cfg_other,       \* the other settings basic_checks reads, taken together
  startup,         \* basic_checks: "pending", "ok", "warning" or "raised"
  file_exists,     \* the send-history file exists
  ledger,          \* its rows
  networkId,       \* the network id the node reports in transactions
  wallet,          \* token ids held by the wallet, in sync order
  nextId,          \* next token id a mint creates
  cycle,           \* number of the running distribution cycle
  winners,         \* nft_airdrop_quest_completers (main.py 121)
  submitters,      \* smr_address_quest_completers (main.py 124)
  reconciled,      \* value of get_smr_address_from_quest_completers()
  smr_address,     \* main.py 342, 345
  nft_ids,         \* main.py 179, 191, 201
  chunk_no,        \* index of the chunk being processed (main.py 197)
  outputs,         \* main.py 177, 212, 240
  invalid_rows,    \* main.py 161, 234
  fetch_failed,    \* a fetch of this cycle returned None
  sent_at_filter,  \* addresses with a ledger row when check_if_sent ran
  supply_at_assign,\* nft_ids when the provisioning loop exited
  minted,          \* a mint of this cycle added tokens
  built,           \* every output built in this cycle, in order
  submitted,       \* every output of a transaction submitted in this cycle
  send_result,     \* how the last send_nfts call ended
  failed_rows,     \* row indices whose append failed in the last call
  ledger_before,   \* the ledger when the last send_nfts call began
  mint_failed,     \* the last turn of the provisioning loop minted nothing
  send_calls,      \* the output lists given to send_nfts in this cycle
  send_failed,     \* a send_nfts call of this cycle raised or lost a row
  sent_before      \* the addresses of the outputs submitted in earlier cycles

dvars == <<dpc, exc, cfg_filename, cfg_other, startup, file_exists, ledger, networkId, wallet,
           nextId, cycle, winners, submitters, reconciled, smr_address,
           nft_ids, chunk_no, outputs, invalid_rows, fetch_failed,
           sent_at_filter, supply_at_assign, minted, built, submitted,
           send_result, failed_rows, ledger_before, mint_failed, send_calls,
           send_failed, sent_before>>

\* The verification process (main.py 242-319).
VARIABLES
  vpc,                          \* its position
  vexc,                         \* the exception that ended it, else "none"
  v_cycle,                      \* number of the running verification cycle
  pending,                      \* 'data' of the fetched response (main.py 263)
  valid_addresses_quest_ids,    \* main.py 270, 287
  invalid_addresses_quest_ids,  \* main.py 271, 289
  reviews,                      \* the reviews posted in this cycle, in order
  v_response                    \* the kind of the last fetched response

vvars == <<vpc, vexc, v_cycle, pending, valid_addresses_quest_ids,
           invalid_addresses_quest_ids, reviews, v_response>>

\* The list functions on their own: one input, one application.
VARIABLES
  fn_op,          \* the function applied: "unique", "filter", "reconcile"
  fn_done,        \* it has been applied
  fn_addresses,   \* the address list given to it
  fn_rows,        \* the rows of the send-history file
  fn_winners,     \* the winner ids
  fn_submitters,  \* the (user id, address) pairs
  fn_out          \* its result

fvars == <<fn_op, fn_done, fn_addresses, fn_rows, fn_winners, fn_submitters,
           fn_out>>

\* One call of mint_nfts (tools.py 276-344), step by step.
VARIABLES
  m_pc,         \* "call", "submit", "confirm" or "returned"
  m_amount,     \* the argument
  m_balance,    \* available_balance (tools.py 283)
  m_options,    \* len(nft_options) (tools.py 294, 324)
  m_sent,       \* how many of them have been handed to account.mint_nfts
  m_batches,    \* the sizes of the batches submitted, in order
  m_confirmed,  \* how many batches retry_transaction_until_included saw in
  m_minted,     \* tokens of confirmed batches
  m_raised      \* the call ended in the except clause (tools.py 343-344)

mvars == <<m_pc, m_amount, m_balance, m_options, m_sent, m_batches,
           m_confirmed, m_minted, m_raised>>

vars == <<dvars, vvars, fvars, mvars>>

cycle_locals == <<winners, submitters, reconciled, smr_address, nft_ids,
                  chunk_no, outputs, invalid_rows>>
cycle_ghosts == <<fetch_failed, sent_at_filter, supply_at_assign, minted,
                  built, submitted, send_result, failed_rows, ledger_before,
                  mint_failed, send_calls, send_failed>>
world == <<cfg_filename, cfg_other, startup, file_exists, ledger, networkId,
           wallet, nextId, cycle, sent_before>>

FreshCycle ==
  /\ winners = <<>> /\ submitters = <<>> /\ reconciled = <<>>
  /\ smr_address = <<>> /\ nft_ids = <<>> /\ chunk_no = 0
  /\ outputs = <<>> /\ invalid_rows = <<>>
  /\ fetch_failed = FALSE /\ sent_at_filter = {} /\ supply_at_assign = <<>>
  /\ minted = FALSE /\ built = <<>> /\ submitted = <<>>
  /\ send_result = "none" /\ failed_rows = {} /\ ledger_before = <<>>
  /\ mint_failed = FALSE /\ send_calls = <<>> /\ send_failed = FALSE

DInit ==
  /\ dpc = "start" /\ exc = "none"
  /\ cfg_filename \in {"set", "empty", "unset"}
  /\ cfg_other \in {"set", "empty", "unset"}
  /\ startup = "pending"
  /\ file_exists \in BOOLEAN
  /\ ledger \in (IF file_exists /\ cfg_filename = "set"
                 THEN {<<>>, PriorRows} ELSE {<<>>})
  /\ networkId \in NetworkIds
  /\ wallet \in InitialSupplies
  /\ nextId = 3
  /\ cycle = 1
  /\ sent_before = {}
  /\ FreshCycle

FreshCycleNext ==
  /\ winners' = <<>> /\ submitters' = <<>> /\ reconciled' = <<>>
  /\ smr_address' = <<>> /\ nft_ids' = <<>> /\ chunk_no' = 0
  /\ outputs' = <<>> /\ invalid_rows' = <<>>
  /\ fetch_failed' = FALSE /\ sent_at_filter' = {} /\ supply_at_assign' = <<>>
  /\ minted' = FALSE /\ built' = <<>> /\ submitted' = <<>>
  /\ send_result' = "none" /\ failed_rows' = {} /\ ledger_before' = <<>>
  /\ mint_failed' = FALSE /\ send_calls' = <<>> /\ send_failed' = FALSE

Raise(e) == dpc' = "terminated" /\ exc' = e

\* tools.py 396-398: the history file is opened for writing, which empties
\* it, only when it does not exist.
create_always(exists, rows) == <<>>

create_history_file(exists, rows) == IF ~exists THEN <<>> ELSE rows

\* tools.py 401-418: False as soon as one setting is None or "".
basic_checks_value(filename, other) == filename = "set" /\ other = "set"

\* run_nft_dropper, main.py 333-340: basic_checks (tools.py 394-418), whose
\* result only selects a log line, then create_shimmer_profile, which changes
\* nothing the workflow reads.  os.path.exists(None) raises TypeError and
\* open("") raises FileNotFoundError, both inside basic_checks.
BasicChecks ==
  /\ dpc = "start"
  /\ UNCHANGED <<vvars, fvars, mvars>>
  /\ IF cfg_filename = "unset"
     THEN Raise("TypeError") /\ startup' = "raised"
          /\ UNCHANGED <<file_exists, ledger>>
     ELSE IF cfg_filename = "empty"
     THEN Raise("FileNotFoundError") /\ startup' = "raised"
          /\ UNCHANGED <<file_exists, ledger>>
     ELSE /\ dpc' = "cycle"
          /\ file_exists' = TRUE
          /\ ledger' = create_history_file(file_exists, ledger)
          /\ startup' = IF basic_checks_value(cfg_filename, cfg_other)
                        THEN "ok" ELSE "warning"
          /\ UNCHANGED exc
  /\ UNCHANGED <<cfg_filename, cfg_other, networkId, wallet, nextId, cycle,
                 sent_before>>
  /\ UNCHANGED <<cycle_locals, cycle_ghosts>>

\* get_smr_address_from_quest_completers, main.py 107-138, with its two
\* fetches.  A failed fetch gives None, and None['data'] raises TypeError
\* (main.py 65, 92); a body without 'data' raises KeyError.  Nothing catches
\* either.
GetSmrAddressFromQuestCompleters ==
  /\ dpc = "cycle"
  /\ UNCHANGED <<vvars, fvars, mvars>>
  /\ \E wr \in Responses(WinnerData), ar \in Responses(AddressData) :
       IF wr.kind = "none" \/ (wr.kind = "data" /\ ar.kind = "none")
       THEN /\ Raise("TypeError")
            /\ fetch_failed' = TRUE
            /\ UNCHANGED <<winners, submitters, reconciled>>
       ELSE IF wr.kind = "no_data" \/ ar.kind = "no_data"
       THEN /\ Raise("KeyError")
            /\ UNCHANGED <<winners, submitters, reconciled, fetch_failed>>
       ELSE /\ winners' = nft_winner_ids(wr.data)
            /\ submitters' = get_smr_address_submitters(ar.data)
            /\ reconciled' = reconcile(winners', submitters')
            /\ dpc' = "filter"
            /\ UNCHANGED <<exc, fetch_failed>>
  /\ UNCHANGED <<world, smr_address, nft_ids, chunk_no, outputs, invalid_rows>>
  /\ UNCHANGED <<sent_at_filter, supply_at_assign, minted, built, submitted,
                 send_result, failed_rows, ledger_before, mint_failed,
                 send_calls, send_failed>>

\* main.py 342: check_if_sent on the reconciled list (tools.py 79-105).
CheckIfSent ==
  /\ dpc = "filter"
  /\ UNCHANGED <<vvars, fvars, mvars>>
  /\ IF ~file_exists
     THEN Raise("FileNotFoundError") /\ UNCHANGED <<smr_address, sent_at_filter>>
     ELSE /\ smr_address' = check_if_sent(reconciled, ledger)
          /\ sent_at_filter' = sent_keys(ledger)
          /\ dpc' = "validate"
          /\ UNCHANGED exc
  /\ UNCHANGED <<world, winners, submitters, reconciled, nft_ids, chunk_no,
                 outputs, invalid_rows>>
  /\ UNCHANGED <<fetch_failed, supply_at_assign, minted, built, submitted,
                 send_result, failed_rows, ledger_before, mint_failed,
                 send_calls, send_failed>>

\* main.py 345: return_valid_shimmer_addresses (tools.py 253-266).  When it
\* raises it returns None, which send_to_address treats like the empty list
\* (main.py 156).
ReturnValidShimmerAddresses ==
  /\ dpc = "validate"
  /\ UNCHANGED <<vvars, fvars, mvars>>
  /\ \E raised \in BOOLEAN :
       smr_address' = IF raised THEN <<>>
                      ELSE return_valid_shimmer_addresses(smr_address)
  /\ dpc' = "send_to_address"
  /\ UNCHANGED <<exc, world, winners, submitters, reconciled, nft_ids, chunk_no,
                 outputs, invalid_rows, cycle_ghosts>>

\* get_available_nfts, tools.py 359-363: sys.exit(1) on an empty collection.
sync_never_exits(nfts) == FALSE

sync_exits(nfts) == Len(nfts) = 0

\* send_to_address, main.py 155-180: return at once on no address, else read
\* the supply; get_available_nfts exits the process on an empty wallet
\* (tools.py 359-363).
SendToAddress ==
  /\ dpc = "send_to_address"
  /\ UNCHANGED <<vvars, fvars, mvars>>
  /\ IF smr_address = <<>>
     THEN dpc' = "sleep" /\ UNCHANGED <<exc, nft_ids>>
     ELSE IF sync_exits(wallet)
     THEN Raise("SystemExit") /\ UNCHANGED nft_ids
     ELSE dpc' = "provision" /\ nft_ids' = wallet /\ UNCHANGED exc
  /\ UNCHANGED <<world, winners, submitters, reconciled, smr_address, chunk_no,
                 outputs, invalid_rows, cycle_ghosts>>

\* main.py 183-192, one turn of the provisioning loop: mint the shortfall,
\* read the supply again.
ProvisionMint ==
  /\ dpc = "provision"
  /\ UNCHANGED <<vvars, fvars, mvars>>
  /\ provision_short(smr_address, nft_ids)
  /\ LET num_missing_nfts == Len(smr_address) - (Len(nft_ids) - 1) IN
     \E available_balance \in Balances,
        confirmed \in 0..mint_batches(num_missing_nfts) :
       LET n == minted_count(num_missing_nfts, available_balance, confirmed) IN
       /\ wallet' = wallet \o fresh_tokens(nextId, n)
       /\ nextId' = nextId + n
       /\ nft_ids' = wallet'
       /\ minted' = (minted \/ n > 0)
       /\ mint_failed' = (n = 0)
  /\ UNCHANGED <<dpc, exc, cfg_filename, cfg_other, startup, file_exists,
                 ledger, networkId, cycle, sent_before, send_calls,
                 send_failed>>
  /\ UNCHANGED <<winners, submitters, reconciled, smr_address, chunk_no,
                 outputs, invalid_rows>>
  /\ UNCHANGED <<fetch_failed, sent_at_filter, supply_at_assign, built,
                 submitted, send_result, failed_rows, ledger_before>>

\* main.py 183, 195: the loop's test fails, the addresses are chunked.
ProvisionDone ==
  /\ dpc = "provision"
  /\ UNCHANGED <<vvars, fvars, mvars>>
  /\ ~provision_short(smr_address, nft_ids)
  /\ supply_at_assign' = nft_ids
  /\ chunk_no' = 1
  /\ dpc' = "assign"
  /\ UNCHANGED <<exc, world, winners, submitters, reconciled, smr_address,
                 nft_ids, outputs, invalid_rows>>
  /\ UNCHANGED <<fetch_failed, sent_at_filter, minted, built, submitted,
                 send_result, failed_rows, ledger_before, mint_failed,
                 send_calls, send_failed>>

\* main.py 198-234: the outputs of the current chunk.
AssignChunk ==
  /\ dpc = "assign"
  /\ UNCHANGED <<vvars, fvars, mvars>>
  /\ LET r == assign_loop(chunk(smr_address, chunk_no), nft_ids, outputs,
                          invalid_rows) IN
       /\ nft_ids' = r.nft_ids
       /\ outputs' = r.outputs
       /\ invalid_rows' = r.invalid_rows
       /\ built' = built \o r.outputs
  /\ dpc' = "send"
  /\ UNCHANGED <<exc, world, winners, submitters, reconciled, smr_address,
                 chunk_no>>
  /\ UNCHANGED <<fetch_failed, sent_at_filter, supply_at_assign, minted,
                 submitted, send_result, failed_rows, ledger_before,
                 mint_failed, send_calls, send_failed>>

\* tools.py 163-165: only a ValueError raised outside the inner try ends the
\* process; the inner `except Exception` (159-161) and the outer one (167-168)
\* log and return.
send_nfts_exits_on_any_error(outcome) ==
  outcome \in {"value_error", "raised_before"}

send_nfts_exits(outcome) == outcome = "value_error"

\* send_nfts (tools.py 108-168), called at main.py 238.
\*   value_error   a ValueError before the inner try: sys.exit(1) (163-165)
\*   raised_before an exception before send_outputs returned (159-161, 167-168)
\*   raised_after  the transaction went out, a later call raised (144-147)
\*   ok            the transaction went out and was read back; the rows are
\*                 written when the network id matches (151-157)
SendNfts ==
  /\ dpc = "send"
  /\ UNCHANGED <<vvars, fvars, mvars>>
  /\ ledger_before' = ledger
  /\ send_calls' = Append(send_calls, outputs)
  /\ \E outcome \in {"value_error", "raised_before", "raised_after", "ok"} :
       \/ /\ send_nfts_exits(outcome)
          /\ Raise("SystemExit")
          /\ send_result' = outcome
          /\ send_failed' = TRUE
          /\ UNCHANGED <<wallet, ledger, submitted, failed_rows>>
       \/ /\ outcome = "raised_before" /\ ~send_nfts_exits(outcome)
          /\ dpc' = "sent" /\ send_result' = outcome
          /\ send_failed' = TRUE
          /\ UNCHANGED <<exc, wallet, ledger, submitted, failed_rows>>
       \/ /\ outcome = "raised_after"
          /\ dpc' = "sent" /\ send_result' = outcome
          /\ send_failed' = TRUE
          /\ wallet' = remove_tokens(wallet, output_tokens(outputs))
          /\ submitted' = submitted \o outputs
          /\ UNCHANGED <<exc, ledger, failed_rows>>
       \/ /\ outcome = "ok"
          /\ dpc' = "sent" /\ send_result' = outcome
          /\ wallet' = remove_tokens(wallet, output_tokens(outputs))
          /\ submitted' = submitted \o outputs
          /\ IF records_network(networkId)
             THEN \E failed \in WriteFailSets(Len(outputs)) :
                    /\ ledger' = write_rows(ledger, outputs, 1, failed)
                    /\ failed_rows' = failed
                    /\ send_failed' = (send_failed \/ failed # {})
             ELSE UNCHANGED <<ledger, failed_rows, send_failed>>
          /\ UNCHANGED exc
  /\ UNCHANGED <<cfg_filename, cfg_other, startup, file_exists, networkId,
                 nextId, cycle, sent_before>>
  /\ UNCHANGED <<cycle_locals, fetch_failed, sent_at_filter, supply_at_assign,
                 minted, built, mint_failed>>

\* main.py 240: outputs = [].
keep_outputs(outs) == outs

reset_outputs(outs) == <<>>

\* main.py 240 and the head of the chunk loop (197): clear the outputs, go to
\* the next chunk or leave send_to_address.
NextChunk ==
  /\ dpc = "sent"
  /\ UNCHANGED <<vvars, fvars, mvars>>
  /\ outputs' = reset_outputs(outputs)
  /\ send_result' = "none" /\ failed_rows' = {} /\ ledger_before' = <<>>
  /\ IF chunk_no < num_chunks(smr_address)
     THEN chunk_no' = chunk_no + 1 /\ dpc' = "assign"
     ELSE chunk_no' = chunk_no /\ dpc' = "sleep"
  /\ UNCHANGED <<exc, world, winners, submitters, reconciled, smr_address,
                 nft_ids, invalid_rows>>
  /\ UNCHANGED <<fetch_failed, sent_at_filter, supply_at_assign, minted, built,
                 submitted, mint_failed, send_calls, send_failed>>

\* main.py 347 and the loop head (341): the next cycle starts with fresh
\* locals.
Sleep ==
  /\ dpc = "sleep"
  /\ UNCHANGED <<vvars, fvars, mvars>>
  /\ cycle < MaxCycles
  /\ cycle' = cycle + 1
  /\ dpc' = "cycle"
  /\ FreshCycleNext
  /\ sent_before' = sent_before \cup output_recipients(submitted)
  /\ UNCHANGED <<exc, cfg_filename, cfg_other, startup, file_exists, ledger,
                 networkId, wallet, nextId>>

VIdle ==
  /\ vpc = "idle" /\ vexc = "none" /\ v_cycle = 1 /\ pending = <<>>
  /\ valid_addresses_quest_ids = <<>> /\ invalid_addresses_quest_ids = <<>>
  /\ reviews = <<>> /\ v_response = "unfetched"

FIdle ==
  /\ fn_op = "idle" /\ fn_done = FALSE /\ fn_addresses = <<>> /\ fn_rows = <<>>
  /\ fn_winners = <<>> /\ fn_submitters = <<>> /\ fn_out = <<>>

MIdle ==
  /\ m_pc = "idle" /\ m_amount = 0 /\ m_balance = 0 /\ m_options = 0
  /\ m_sent = 0 /\ m_batches = <<>> /\ m_confirmed = 0 /\ m_minted = 0
  /\ m_raised = FALSE

DIdle ==
  /\ dpc = "idle" /\ exc = "none" /\ cfg_filename = "set"
  /\ cfg_other = "set" /\ startup = "pending"
  /\ file_exists = FALSE /\ ledger = <<>> /\ networkId = MainnetNetworkId
  /\ wallet = <<>> /\ nextId = 3 /\ cycle = 1 /\ sent_before = {}
  /\ FreshCycle

DNext ==
  \/ BasicChecks
  \/ GetSmrAddressFromQuestCompleters
  \/ CheckIfSent
  \/ ReturnValidShimmerAddresses
  \/ SendToAddress
  \/ ProvisionMint
  \/ ProvisionDone
  \/ AssignChunk
  \/ SendNfts
  \/ NextChunk
  \/ Sleep

Init == DInit /\ VIdle /\ FIdle /\ MIdle

Next == DNext

Spec == Init /\ [][Next]_vars

\* ------------------------------------------------ the verification loop
\* The texts of pending submissions: up to two words, each no address (0),
\* a valid smr1 address (1), a malformed smr1 word (MaxUsers) or a valid
\* address of another network (-1).
Words == {0, 1, MaxUsers, -1}
Texts == SeqsUpTo(Words, 2)
PendingData ==
  UNION {{[i \in 1..n |-> [id |-> i, value |-> t[i]]] : t \in [1..n -> Texts]} :
         n \in 0..MaxPending}

\* main.py 284-289 for the words of one submission.
RECURSIVE words_loop(_, _, _)
words_loop(words, id, lists) ==
  IF words = <<>> THEN lists
  ELSE words_loop(Tail(words), id,
         IF validate_shimmer_address(Head(words))
         THEN [lists EXCEPT !.valid = Append(@, id)]
         ELSE [lists EXCEPT !.invalid = Append(@, id)])

\* main.py 276-289 for all fetched submissions.
RECURSIVE items_loop(_, _)
items_loop(data, lists) ==
  IF data = <<>> THEN lists
  ELSE items_loop(Tail(data), words_loop(Head(data).value, Head(data).id, lists))

VInit ==
  /\ vpc = "fetch" /\ vexc = "none" /\ v_cycle = 1 /\ pending = <<>>
  /\ valid_addresses_quest_ids = <<>> /\ invalid_addresses_quest_ids = <<>>
  /\ reviews = <<>> /\ v_response = "unfetched"

\* main.py 272: `not smr_address_quest_completers` holds for None and for an
\* empty body; a body with an empty 'data' list is a non-empty dict.
not_response_or_no_item(r) == r.kind = "none" \/ (r.kind = "data" /\ r.data = <<>>)

not_response(r) == r.kind = "none"

\* main.py 263-273: fetch the pending submissions; `if not response: return`
\* ends the function on None (and on an empty JSON body).
VFetch ==
  /\ vpc = "fetch"
  /\ \E r \in Responses(PendingData) :
       /\ pending' = r.data
       /\ v_response' = r.kind
       /\ vpc' = IF not_response(r) THEN "returned"
                 ELSE IF r.kind = "no_data" THEN "terminated"
                 ELSE "validate"
       /\ vexc' = IF r.kind = "no_data" THEN "KeyError" ELSE "none"
  /\ UNCHANGED <<v_cycle, valid_addresses_quest_ids,
                 invalid_addresses_quest_ids, reviews>>
  /\ UNCHANGED <<dvars, fvars, mvars>>

\* main.py 276-292: sort the claim ids by the validity of each word.
VValidate ==
  /\ vpc = "validate"
  /\ LET lists == items_loop(pending, [valid |-> <<>>, invalid |-> <<>>]) IN
       /\ valid_addresses_quest_ids' = lists.valid
       /\ invalid_addresses_quest_ids' = lists.invalid
  /\ vpc' = "review"
  /\ UNCHANGED <<vexc, v_cycle, pending, reviews, v_response>>
  /\ UNCHANGED <<dvars, fvars, mvars>>

\* main.py 295-317: post the success review, then the fail review, each only
\* for a non-empty list.  validate_zealy_api_data swallows its errors
\* (tools.py 237-238).
VReview ==
  /\ vpc = "review"
  /\ reviews' =
       (IF valid_addresses_quest_ids # <<>>
        THEN <<[status |-> "success", claimedQuestIds |-> valid_addresses_quest_ids]>>
        ELSE <<>>)
       \o
       (IF invalid_addresses_quest_ids # <<>>
        THEN <<[status |-> "fail", claimedQuestIds |-> invalid_addresses_quest_ids]>>
        ELSE <<>>)
  /\ vpc' = "sleep"
  /\ UNCHANGED <<vexc, v_cycle, pending, valid_addresses_quest_ids,
                 invalid_addresses_quest_ids, v_response>>
  /\ UNCHANGED <<dvars, fvars, mvars>>

\* main.py 319 and the loop head (262, 269-271).
VSleep ==
  /\ vpc = "sleep"
  /\ v_cycle < MaxVCycles
  /\ v_cycle' = v_cycle + 1
  /\ vpc' = "fetch"
  /\ pending' = <<>>
  /\ valid_addresses_quest_ids' = <<>>
  /\ invalid_addresses_quest_ids' = <<>>
  /\ reviews' = <<>>
  /\ v_response' = "unfetched"
  /\ UNCHANGED vexc
  /\ UNCHANGED <<dvars, fvars, mvars>>

VNext == VFetch \/ VValidate \/ VReview \/ VSleep

VerifyInit == DIdle /\ VInit /\ FIdle /\ MIdle

VerifySpec == VerifyInit /\ [][VNext]_vars

\* ------------------------------------------- the list functions alone
FnAddresses == 1..MaxVal
FnRows == SeqsUpTo({[address |-> a, nftId |-> 1] : a \in FnAddresses}, MaxLen)
FnPairs == (1..FnUsers) \X (1..FnUsers)

FInit ==
  /\ fn_done = FALSE /\ fn_out = <<>>
  /\ \/ /\ fn_op = "unique"
        /\ fn_addresses \in SeqsUpTo(FnAddresses, MaxLen + 1)
        /\ fn_rows = <<>> /\ fn_winners = <<>> /\ fn_submitters = <<>>
     \/ /\ fn_op = "filter"
        /\ fn_addresses \in SeqsUpTo(FnAddresses, MaxLen)
        /\ fn_rows \in FnRows
        /\ fn_winners = <<>> /\ fn_submitters = <<>>
     \/ /\ fn_op = "reconcile"
        /\ fn_winners \in SeqsUpTo(1..FnUsers, FnUsers)
        /\ fn_submitters \in SeqsUpTo(FnPairs, MaxLen)
        /\ fn_addresses = <<>> /\ fn_rows = <<>>

ApplyUniqueAddresses ==
  /\ fn_op = "unique" /\ ~fn_done
  /\ fn_out' = unique_addresses(fn_addresses)
  /\ fn_done' = TRUE
  /\ UNCHANGED <<fn_op, fn_addresses, fn_rows, fn_winners, fn_submitters>>
  /\ UNCHANGED <<dvars, vvars, mvars>>

ApplyCheckIfSent ==
  /\ fn_op = "filter" /\ ~fn_done
  /\ fn_out' = check_if_sent(fn_addresses, fn_rows)
  /\ fn_done' = TRUE
  /\ UNCHANGED <<fn_op, fn_addresses, fn_rows, fn_winners, fn_submitters>>
  /\ UNCHANGED <<dvars, vvars, mvars>>

ApplyReconcile ==
  /\ fn_op = "reconcile" /\ ~fn_done
  /\ fn_out' = reconcile(fn_winners, fn_submitters)
  /\ fn_done' = TRUE
  /\ UNCHANGED <<fn_op, fn_addresses, fn_rows, fn_winners, fn_submitters>>
  /\ UNCHANGED <<dvars, vvars, mvars>>

FNext == ApplyUniqueAddresses \/ ApplyCheckIfSent \/ ApplyReconcile

FnInit == DIdle /\ VIdle /\ FInit /\ MIdle

FnSpec == FnInit /\ [][FNext]_vars

\* ------------------------------------------------- mint_nfts alone
\* tools.py 330: the size of the slice nft_options[start : start + 50].
mint_slice_unbounded(total, start) == total - start

mint_slice(total, start) == Min(MintBatchSize, total - start)

MInit ==
  /\ m_pc = "call"
  /\ m_amount \in 1..MaxMint
  /\ m_balance \in Balances
  /\ m_options = 0 /\ m_sent = 0 /\ m_batches = <<>> /\ m_confirmed = 0
  /\ m_minted = 0 /\ m_raised = FALSE

\* tools.py 278-328: read the balance; return when it is too low, else build
\* amount mint requests.
MintCall ==
  /\ m_pc = "call"
  /\ IF balance_too_low(m_balance)
     THEN m_pc' = "returned" /\ UNCHANGED m_options
     ELSE m_pc' = "submit" /\ m_options' = m_amount
  /\ UNCHANGED <<m_amount, m_balance, m_sent, m_batches, m_confirmed,
                 m_minted, m_raised>>
  /\ UNCHANGED <<dvars, vvars, fvars>>

\* tools.py 330-331: account.mint_nfts on the next slice.
MintSubmit ==
  /\ m_pc = "submit"
  /\ LET n == mint_slice(m_options, m_sent) IN
       /\ m_batches' = Append(m_batches, n)
       /\ m_sent' = m_sent + n
  /\ m_pc' = "confirm"
  /\ UNCHANGED <<m_amount, m_balance, m_options, m_confirmed, m_minted,
                 m_raised>>
  /\ UNCHANGED <<dvars, vvars, fvars>>

\* tools.py 335-336: block until the transaction is included, sync, then take
\* the next slice or leave the loop.
MintConfirm ==
  /\ m_pc = "confirm"
  /\ m_confirmed' = m_confirmed + 1
  /\ m_minted' = m_minted + m_batches[Len(m_batches)]
  /\ m_pc' = IF m_sent < m_options THEN "submit" ELSE "returned"
  /\ UNCHANGED <<m_amount, m_balance, m_options, m_sent, m_batches, m_raised>>
  /\ UNCHANGED <<dvars, vvars, fvars>>

\* tools.py 343-344: any exception of a wallet call ends the call quietly.
MintRaise ==
  /\ m_pc \in {"call", "submit", "confirm"}
  /\ m_raised' = TRUE
  /\ m_pc' = "returned"
  /\ UNCHANGED <<m_amount, m_balance, m_options, m_sent, m_batches,
                 m_confirmed, m_minted>>
  /\ UNCHANGED <<dvars, vvars, fvars>>

MNext == MintCall \/ MintSubmit \/ MintConfirm \/ MintRaise

MintInit == DIdle /\ VIdle /\ FIdle /\ MInit

MintSpec == MintInit /\ [][MNext]_vars

\* ------------------------------- the chunk loop of send_to_address alone
\* main.py 194-240 started on every local supply list: n tokens 1..n, the
\* collection token absent (pos = 0) or standing before the pos-th of them.
SupplyList(n, pos) ==
  [i \in 1..(IF pos = 0 THEN n ELSE n + 1) |->
     IF pos = 0 \/ i < pos THEN i
     ELSE IF i = pos THEN collection_nft_id ELSE i - 1]

AssignSupplies ==
  {SupplyList(n, pos) : n \in 0..MaxAssign, pos \in 0..(MaxAssign + 1)}

AssignAddresses == {[i \in 1..k |-> i] : k \in 1..MaxAssign}

AInit ==
  /\ dpc = "assign" /\ exc = "none"
  /\ cfg_filename = "set" /\ cfg_other = "set" /\ startup = "ok"
  /\ file_exists = TRUE /\ ledger = <<>>
  /\ networkId = RecordedNetworkId
  /\ smr_address \in AssignAddresses
  /\ nft_ids \in AssignSupplies
  /\ wallet = nft_ids
  /\ nextId = MaxAssign + 1 /\ cycle = 1 /\ sent_before = {}
  /\ winners = <<>> /\ submitters = <<>> /\ reconciled = smr_address
  /\ chunk_no = 1 /\ outputs = <<>> /\ invalid_rows = <<>>
  /\ fetch_failed = FALSE /\ sent_at_filter = {}
  /\ supply_at_assign = nft_ids
  /\ minted = FALSE /\ built = <<>> /\ submitted = <<>>
  /\ send_result = "none" /\ failed_rows = {} /\ ledger_before = <<>>
  /\ mint_failed = FALSE /\ send_calls = <<>> /\ send_failed = FALSE

ANext == AssignChunk \/ SendNfts \/ NextChunk

AssignInit == AInit /\ VIdle /\ FIdle /\ MIdle

AssignSpec == AssignInit /\ [][ANext]_vars

\* ================================================================ claims
NonCollection(ids) == SelectSeq(ids, LAMBDA t : t # collection_nft_id)
HasRow(rows, a) == \E r \in DOMAIN rows : rows[r].address = a
FirstIndex(s, x) == CHOOSE i \in DOMAIN s : s[i] = x /\ \A k \in 1..(i - 1) : s[k] # x
WinningIndexes(a) ==
  {k \in DOMAIN fn_submitters :
     fn_submitters[k][2] = a /\ InList(fn_submitters[k][1], fn_winners)}
FirstWinningIndex(a) ==
  CHOOSE k \in WinningIndexes(a) : \A m \in WinningIndexes(a) : k <= m

\* C1: in every distribution cycle, no output of a transaction submitted by
\* send_nfts goes to an address that had a row in the send-history ledger when
\* check_if_sent ran in that cycle.
C1_NoSendToLedgeredAddress ==
  \A i \in DOMAIN submitted : submitted[i].recipientAddress \notin sent_at_filter

C1_Witness ==
  /\ submitted # <<>>
  /\ \E a \in Range(reconciled) : a \in sent_at_filter

\* C2: a failed quest-platform fetch is treated as "no records this cycle":
\* nothing is sent and the distribution process does not terminate.
C2_FetchFailureIsNotFatal ==
  fetch_failed => (dpc # "terminated" /\ submitted = <<>>)

\* C3: after send_nfts submitted a batch successfully (and no append failed),
\* the ledger gained one row per output of the batch if the network id is the
\* mainnet id, and gained no row for any other network id.
C3_RecordedIffMainnet ==
  (dpc = "sent" /\ send_result = "ok" /\ failed_rows = {}) =>
    IF networkId = MainnetNetworkId
    THEN ledger = write_rows(ledger_before, outputs, 1, {})
    ELSE ledger = ledger_before

\* C4: no output built by send_to_address carries the collection token id; the
\* k-th output of the cycle goes to the k-th address and carries the k-th
\* token of the supply that is not the collection token.
C4_CollectionTokenNeverAssigned ==
  /\ \A i \in DOMAIN built : built[i].nftId # collection_nft_id
  /\ Len(built) <= Len(NonCollection(supply_at_assign))
  /\ Len(built) <= Len(smr_address)
  /\ \A i \in DOMAIN built :
       /\ built[i].nftId = NonCollection(supply_at_assign)[i]
       /\ built[i].recipientAddress = smr_address[i]

C4_Witness ==
  /\ Len(built) >= 2
  /\ \E i \in DOMAIN supply_at_assign :
       supply_at_assign[i] = collection_nft_id /\ i <= Len(built)

\* C5: once the provisioning loop of send_to_address has exited, the supply
\* it read holds at least len(addresses) + 1 token ids.
C5_ProvisionPostcondition ==
  dpc \in {"assign", "send", "sent"} =>
    Len(supply_at_assign) >= Len(smr_address) + 1

C5_Witness ==
  dpc = "assign" /\ minted /\ Len(supply_at_assign) >= Len(smr_address) + 1

\* C6: within one distribution cycle no two outputs, of the same batch or of
\* different batches, have the same recipient address.
C6_OneOutputPerAddress ==
  \A i, j \in DOMAIN built :
    i # j => built[i].recipientAddress # built[j].recipientAddress

C6_Witness ==
  /\ Len(built) > ChunkSize
  /\ \E i, j \in DOMAIN submitters :
       /\ i < j
       /\ submitters[i][2] = submitters[j][2]
       /\ InList(submitters[i][1], winners)
       /\ InList(submitters[j][1], winners)

\* C7: check_if_sent(A) holds no address with a ledger row, holds every
\* address of A without one, and is A with the ledgered addresses removed
\* (order and repetitions kept).
C7_CheckIfSentFilters ==
  (fn_op = "filter" /\ fn_done) =>
    /\ \A i \in DOMAIN fn_out : ~HasRow(fn_rows, fn_out[i])
    /\ \A i \in DOMAIN fn_addresses :
         ~HasRow(fn_rows, fn_addresses[i]) => InList(fn_addresses[i], fn_out)
    /\ fn_out = SelectSeq(fn_addresses, LAMBDA a : ~HasRow(fn_rows, a))

C7_Witness ==
  /\ fn_op = "filter" /\ fn_done
  /\ Len(fn_out) >= 2
  /\ Len(fn_out) < Len(fn_addresses)

\* C8: every reconciled address is the address of a submitter whose user id is
\* a winner, and the addresses come in the order of their first such submitter.
C8_ReconcileSound ==
  (fn_op = "reconcile" /\ fn_done) =>
    /\ \A i \in DOMAIN fn_out : WinningIndexes(fn_out[i]) # {}
    /\ \A i, j \in DOMAIN fn_out :
         i < j => FirstWinningIndex(fn_out[i]) < FirstWinningIndex(fn_out[j])

C8_Witness ==
  /\ fn_op = "reconcile" /\ fn_done
  /\ Len(fn_out) >= 2
  /\ \E k \in DOMAIN fn_submitters : ~InList(fn_submitters[k][1], fn_winners)

\* C9: unique_addresses returns a list without repeated values, with exactly
\* the values of its input, in the order of their first occurrence, and
\* applying it to its own result changes nothing.
C9_UniqueAddressesStable ==
  (fn_op = "unique" /\ fn_done) =>
    /\ \A i, j \in DOMAIN fn_out : i # j => fn_out[i] # fn_out[j]
    /\ Range(fn_out) = Range(fn_addresses)
    /\ \A i, j \in DOMAIN fn_out :
         i < j => FirstIndex(fn_addresses, fn_out[i]) < FirstIndex(fn_addresses, fn_out[j])
    /\ unique_addresses(fn_out) = fn_out

C9_Witness ==
  /\ fn_op = "unique" /\ fn_done
  /\ Len(fn_out) >= 2
  /\ Len(fn_out) < Len(fn_addresses)

\* C10: the verification loop has no terminal state: it never leaves its
\* polling loop.
C10_NoTerminalState == vpc \notin {"returned", "terminated"}

\* C11: in a verification cycle a submission's claim id is in the success
\* list iff at least one word of its text validates (configured prefix and
\* oracle), and in the fail list iff at least one word fails.
WordValidates(w) == starts_with_hrp(w) /\ is_address_valid(w)

C11_ReviewListsPerWord ==
  vpc \in {"review", "sleep"} =>
    \A k \in DOMAIN pending :
      /\ InList(pending[k].id, valid_addresses_quest_ids)
           <=> \E w \in DOMAIN pending[k].value : WordValidates(pending[k].value[w])
      /\ InList(pending[k].id, invalid_addresses_quest_ids)
           <=> \E w \in DOMAIN pending[k].value : ~WordValidates(pending[k].value[w])

C11_Witness ==
  /\ vpc = "sleep"
  /\ \E k \in DOMAIN pending :
       /\ InList(pending[k].id, valid_addresses_quest_ids)
       /\ InList(pending[k].id, invalid_addresses_quest_ids)
  /\ Len(reviews) = 2

\* C12: whatever settings are set, empty or unset, the startup check does not
\* block startup: after it the send-history file exists and the workflow is in
\* (or past) its polling loop, having warned when a setting is missing.
C12_StartupNeverBlocked ==
  dpc # "start" =>
    /\ startup # "raised"
    /\ file_exists
    /\ (cfg_filename # "set" \/ cfg_other # "set") => startup = "warning"

\* C13: when the wallet sync of get_available_nfts returns no token, the
\* distribution process exits in that very step (nothing is minted, built or
\* submitted by it), and an exited process takes no further step: no mint, no
\* send, no later cycle.
C13_EmptySupplyIsFatal ==
  [][ /\ dpc # "terminated"
      /\ (dpc = "send_to_address" /\ smr_address # <<>> /\ wallet = <<>>) =>
           /\ dpc' = "terminated" /\ exc' = "SystemExit"
           /\ UNCHANGED <<wallet, nextId, ledger, built, submitted, cycle>> ]_vars

C13_Witness ==
  /\ dpc = "terminated" /\ exc = "SystemExit"
  /\ wallet = <<>> /\ smr_address # <<>> /\ built = <<>>

RECURSIVE SumSeq(_)
SumSeq(q) == IF q = <<>> THEN 0 ELSE Head(q) + SumSeq(Tail(q))

\* C14 as stated: mint transactions go out only when the balance exceeds
\* 10 000 000; when it does not exceed it, nothing is minted.
C14_MintOnlyAboveMinimum ==
  /\ m_batches # <<>> => m_balance > MinBalance
  /\ (m_pc = "returned" /\ m_balance <= MinBalance) =>
       (m_batches = <<>> /\ m_minted = 0)

\* C14, amended: mint transactions go out only when the balance is at least
\* 10 000 000; when it is below, the call returns with no batch submitted and
\* no token minted.
C14_MintOnlyFromMinimum ==
  /\ m_batches # <<>> => m_balance >= MinBalance
  /\ m_balance < MinBalance =>
       (m_batches = <<>> /\ m_minted = 0 /\ m_options = 0)

C14_Witness ==
  /\ m_pc = "returned" /\ ~m_raised
  /\ m_balance < MinBalance /\ m_minted = 0

\* C19: on sufficient balance the count requests go out as consecutive
\* batches of at most 50, every batch but the last of exactly 50, the sizes
\* summing to count; a batch is submitted only when every earlier batch has
\* been confirmed.
C19_MintBatchesSequential ==
  /\ \A k \in DOMAIN m_batches :
       /\ m_batches[k] >= 1 /\ m_batches[k] <= MintBatchSize
       /\ k < Len(m_batches) => m_batches[k] = MintBatchSize
  /\ SumSeq(m_batches) = m_sent /\ m_sent <= m_amount
  /\ (m_pc = "returned" /\ ~m_raised /\ m_balance >= MinBalance) =>
       SumSeq(m_batches) = m_amount
  /\ m_pc = "submit" => m_confirmed = Len(m_batches)
  /\ m_pc = "confirm" => m_confirmed = Len(m_batches) - 1
  /\ m_confirmed <= Len(m_batches) /\ Len(m_batches) - m_confirmed <= 1

C19_Witness ==
  /\ m_pc = "returned" /\ ~m_raised
  /\ Len(m_batches) = 3 /\ m_confirmed = 3
  /\ m_batches[3] < MintBatchSize

IsPrefix(s, t) == Len(s) <= Len(t) /\ SubSeq(t, 1, Len(s)) = s

\* C15: the ledger is append-only.  In every step the old rows are a prefix
\* of the new rows; the startup check and the filter leave an existing ledger
\* as it is; only send_nfts adds rows, one per write_to_csv call that did not
\* fail.
C15_LedgerAppendOnly ==
  [][ /\ IsPrefix(ledger, ledger')
      /\ dpc \in {"start", "filter"} => ledger' = ledger
      /\ ledger' # ledger =>
           /\ dpc = "send"
           /\ Len(ledger') = Len(ledger) + Len(outputs) - Cardinality(failed_rows')
    ]_vars

C15_Witness ==
  /\ dpc = "sent"
  /\ IsPrefix(PriorRows, ledger_before)
  /\ Len(ledger) > Len(ledger_before)
  /\ IsPrefix(ledger_before, ledger)

\* C16: an address whose batch was submitted in an earlier cycle and has no
\* ledger row passes the ledger filter again when the quest platform still
\* lists it; the batch built from it is then submitted again (witness), so the
\* address is sent a token in two different cycles.
C16_UnrecordedBatchPassesFilterAgain ==
  dpc = "validate" =>
    \A a \in Range(reconciled) :
      (a \in sent_before /\ ~HasRow(ledger, a)) => InList(a, smr_address)

C16_Witness ==
  /\ networkId = RecordedNetworkId
  /\ cycle = 2
  /\ \E i \in DOMAIN submitted :
       /\ submitted[i].recipientAddress \in sent_before
       /\ ~HasRow(ledger, submitted[i].recipientAddress)

\* C18: while the supply is short of len(addresses) + 1 and a turn of the
\* provisioning loop leaves the wallet as it was (the mint failed), the loop
\* stays where it is: no output is built, no batch submitted, no row written
\* and the cycle does not end.
C18_ProvisionLoopSpins ==
  [][ (dpc = "provision" /\ Len(nft_ids) < Len(smr_address) + 1
       /\ wallet' = wallet) =>
        /\ dpc' = "provision" /\ nft_ids' = nft_ids
        /\ UNCHANGED <<built, submitted, send_calls, ledger, cycle, exc>>
    ]_vars

C18_Witness ==
  /\ dpc = "provision" /\ mint_failed
  /\ Len(nft_ids) < Len(smr_address) + 1
  /\ built = <<>> /\ submitted = <<>>

Recipients(outs) == [i \in DOMAIN outs |-> outs[i].recipientAddress]

\* C20: the k-th send_nfts call of a cycle carries the outputs of the k-th
\* group of 10 addresses, in list order; a call carries at most 10 outputs;
\* no output is in two calls; a call is made only after the one before it
\* returned.
C20_GroupsOfTenOneCallEach ==
  /\ \A k \in DOMAIN send_calls :
       /\ Len(send_calls[k]) <= ChunkSize
       /\ Recipients(send_calls[k]) = chunk(smr_address, k)
       /\ \A j \in 1..(k - 1) : Range(send_calls[j]) \cap Range(send_calls[k]) = {}
  /\ dpc = "send" => Len(send_calls) = chunk_no - 1
  /\ dpc = "sent" => Len(send_calls) = chunk_no /\ send_calls[chunk_no] = outputs
  /\ (dpc = "sleep" /\ smr_address # <<>>) =>
       /\ Len(send_calls) = num_chunks(smr_address)
       /\ outputs = <<>>

C20_Witness ==
  /\ dpc = "sleep"
  /\ Len(send_calls) = 2
  /\ Len(send_calls[1]) = ChunkSize /\ Len(send_calls[2]) >= 1

\* C17 as stated: once a fetch has found no pending submission, the loop has
\* returned: nothing is validated or reviewed, there is no sleep and no later
\* fetch.
C17_ReturnsWhenNonePending ==
  (v_response \in {"none", "data"} /\ pending = <<>>) => vpc = "returned"

\* C17, amended: the loop returns exactly when the fetch gives no response
\* (None or an empty body): then no review is posted, there is no sleep and no
\* further step.  A response whose list of submissions is empty is not that
\* case: the cycle goes on, posts no review, and sleeps before the next fetch.
C17_ReturnsOnlyWithoutResponse ==
  [][ /\ vpc # "returned"
      /\ vpc = "fetch" =>
           /\ v_response' = "none" => (vpc' = "returned" /\ reviews' = <<>>)
           /\ v_response' = "data" => vpc' = "validate"
      /\ vpc' = "returned" => (vpc = "fetch" /\ v_response' = "none")
      /\ (vpc = "review" /\ pending = <<>>) =>
           (vpc' = "sleep" /\ reviews' = <<>>)
    ]_vars

C17_Witness ==
  /\ vpc = "returned" /\ v_response = "none"
  /\ reviews = <<>> /\ v_cycle = MaxVCycles

\* C21: when preparing the outputs or submitting the transaction raises inside
\* send_nfts, the call returns: the ledger and the wallet are as before, the
\* process has not terminated, and send_to_address goes on with the next
\* group, or leaves the chunk loop after the last one.
C21_SendErrorIsSwallowed ==
  [][ /\ (dpc = "send" /\ send_result' = "raised_before") =>
           /\ dpc' = "sent" /\ exc' = exc
           /\ UNCHANGED <<ledger, wallet, submitted>>
      /\ (dpc = "sent" /\ send_result = "raised_before") =>
           /\ exc' = exc /\ ledger' = ledger
           /\ IF chunk_no < num_chunks(smr_address)
              THEN dpc' = "assign" /\ chunk_no' = chunk_no + 1
              ELSE dpc' = "sleep"
    ]_vars

C21_Witness ==
  /\ dpc = "sent" /\ chunk_no = 2 /\ send_result = "ok"
  /\ send_failed /\ send_calls[1] # <<>>
  /\ submitted = send_calls[2] /\ submitted # <<>>
  /\ \A i \in DOMAIN send_calls[1] :
       ~HasRow(ledger, send_calls[1][i].recipientAddress)

\* C22: when the local supply runs out during the assignment, the address is
\* put aside: it has no output in the cycle, then or later, and the outputs
\* built before it for the same group are still handed to send_nfts.
C22_ExhaustedAddressIsSkipped ==
  /\ Range(invalid_rows) \cap Range(Recipients(built)) = {}
  /\ dpc \in {"send", "sent", "sleep"} =>
       Recipients(built) \o invalid_rows
         = SubSeq(smr_address, 1, Min(chunk_no * ChunkSize, Len(smr_address)))
  /\ dpc = "sent" =>
       /\ send_calls[chunk_no] = outputs
       /\ send_result \in {"ok", "raised_after"} =>
            SubSeq(submitted, Len(submitted) - Len(outputs) + 1, Len(submitted))
              = outputs

C22_Witness ==
  /\ dpc = "sent" /\ send_result = "ok"
  /\ invalid_rows # <<>> /\ outputs # <<>>
  /\ send_calls[chunk_no] = outputs
  /\ Range(outputs) \subseteq Range(submitted)

Distinct(q) == \A i, j \in DOMAIN q : i # j => q[i] # q[j]

OutputsTo(a) == {i \in DOMAIN built : built[i].recipientAddress = a}

\* C23: after the provisioning loop, with pairwise distinct token ids in the
\* supply, the assignment never runs out of tokens: no address is put aside,
\* every address of a group handed to send_nfts has exactly one output, and at
\* the end of the cycle so has every address given to send_to_address.
C23_SupplyNeverExhausted ==
  (dpc \in {"assign", "send", "sent", "sleep"} /\ Distinct(supply_at_assign)) =>
    /\ invalid_rows = <<>>
    /\ dpc \in {"send", "sent"} =>
         \A i \in 1..Min(chunk_no * ChunkSize, Len(smr_address)) :
           Cardinality(OutputsTo(smr_address[i])) = 1
    /\ dpc = "sleep" =>
         \A i \in DOMAIN smr_address : Cardinality(OutputsTo(smr_address[i])) = 1

C23_Witness ==
  /\ dpc = "sleep" /\ Len(smr_address) >= 2
  /\ Len(supply_at_assign) = Len(smr_address) + 1
  /\ InList(collection_nft_id, supply_at_assign)
  /\ Distinct(supply_at_assign)
  /\ Len(built) = Len(smr_address) /\ nft_ids = <<>>

\* C24: within one cycle, given pairwise distinct token ids in the supply, no
\* token id is in two outputs, of one group or of two, whether or not an
\* earlier group failed to send; a token given to an output is no longer in
\* the local supply.
C24_NoTokenAssignedTwice ==
  Distinct(supply_at_assign) =>
    /\ \A i, j \in DOMAIN built : i # j => built[i].nftId # built[j].nftId
    /\ \A i \in DOMAIN built : ~InList(built[i].nftId, nft_ids)

C24_Witness ==
  /\ dpc = "send" /\ chunk_no = 2
  /\ send_failed /\ submitted = <<>>
  /\ Len(built) > ChunkSize /\ outputs # <<>>
  /\ Distinct(supply_at_assign)

\* C25: at the end of a cycle in which the fetches, the minting and every
\* send_nfts call succeeded, every validated address the cycle was given has
\* a row in the ledger (and is filtered out from then on).
C25_ValidWinnersGetRecorded ==
  (dpc = "sleep" /\ ~fetch_failed /\ ~mint_failed /\ ~send_failed) =>
    \A i \in DOMAIN smr_address : HasRow(ledger, smr_address[i])

\* C26: in a verification cycle that fetched submissions, every fetched
\* submission's claim id is in the success list or in the fail list, and so in
\* a posted review, whatever its text.
C26_EverySubmissionReviewed ==
  /\ vpc \in {"review", "sleep"} =>
       \A i \in DOMAIN pending :
         \/ InList(pending[i].id, valid_addresses_quest_ids)
         \/ InList(pending[i].id, invalid_addresses_quest_ids)
  /\ vpc = "sleep" =>
       \A i \in DOMAIN pending :
         \E k \in DOMAIN reviews : InList(pending[i].id, reviews[k].claimedQuestIds)
====
